---- MODULE Spec2Model ----
(***************************************************************************)
(* Model of model.c: the word-adjacency model built by create_model and    *)
(* the randomized backtracking search of generate_sentence.                *)
(*                                                                         *)
(* A C string is a sequence of one-character strings.  A Word* is the      *)
(* index of the entry in model->words; an array is a function on the slots *)
(* written so far, numbered from 0 as in the code.                         *)
(***************************************************************************)
EXTENDS Integers, Sequences, FiniteSets

\* ------------------------------------------------------------------ bounds

\* longest token stream (number of tokens) handed to create_model
MaxTokens == 4
\* largest sentence length requested from generate_sentence
MaxLength == 3
\* longest token stream of the specification with fairness
MaxFairTokens == 3
\* largest sentence length requested on the corpus "a a a b."
MaxCycleLength == 5

\* ------------------------------------------------------------ C library

UpperChars == <<"A","B","C","D","E","F","G","H","I","J","K","L","M",
                "N","O","P","Q","R","S","T","U","V","W","X","Y","Z">>
LowerChars == <<"a","b","c","d","e","f","g","h","i","j","k","l","m",
                "n","o","p","q","r","s","t","u","v","w","x","y","z">>

isupper(c) == \E i \in 1..26 : UpperChars[i] = c
islower(c) == \E i \in 1..26 : LowerChars[i] = c

tolower(c) == IF isupper(c)
              THEN LowerChars[CHOOSE i \in 1..26 : UpperChars[i] = c]
              ELSE c

toupper(c) == IF islower(c)
              THEN UpperChars[CHOOSE i \in 1..26 : LowerChars[i] = c]
              ELSE c

\* the null pointer: no index of model->words
NULL == -1

\* An array is a function on the slots that have been written; memory that
\* was allocated and never written is no part of the state, and a read of
\* it has no value.
\* array a with x written to slot n
Store(a, n, x) == [i \in (DOMAIN a) \cup {n} |-> IF i = n THEN x ELSE a[i]]
EmptyArray == [i \in {} |-> NULL]

\* ------------------------------------------------------------- the input

\* The tokens scan_next_word can deliver: non-empty runs of the characters
\* of its scan set.  The streams of the model draw from this pool.
TokenPool == { <<"a">>, <<"a", ".">>, <<"A">>, <<"b", ";">>, <<".">> }

RECURSIVE Streams(_)
Streams(n) == IF n = 0 THEN { <<>> }
              ELSE LET shorter == Streams(n - 1)
                   IN  shorter \cup { Append(s, t) : s \in { x \in shorter : Len(x) = n - 1 },
                                                     t \in TokenPool }

VARIABLES
    text,          \* the token stream behind the FILE* given to create_model
    max_length,    \* the largest length the caller passes to generate_sentence
    pos,           \* number of tokens scan_next_word has consumed
    model,         \* struct ModelImplementation: n_w, words, n_ssw, sentence_starting_words
    this_word,     \* create_model's this_word
    new_sentence,  \* create_model's new_sentence
    resolved,      \* history: the entry each scanned token was added to
    phase,         \* "building", "exit" (exit(1)), "ready" (model returned), "searching",
                   \* "undefined" (after a write outside an array)
    length,        \* generate_sentence's length
    sentence,      \* generate_sentence's Word* sentence[length]
    ssw_checked,   \* find_words's ssw_checked[n_ssw]
    cur_index,     \* cur_index of the innermost find_words_recursive frame
    pc,            \* position of the innermost frame
    result,        \* what the last generate_sentence returned
    tried,         \* history: ssw_index of every inner search find_words started
    failed,        \* history: the ssw_index values whose inner search returned false
    returned,      \* history: the strings generate_sentence has returned, where kept
    picked         \* history: per frame (by cur_index), the nw_index values it selected

cvars == <<text, max_length, pos, this_word, new_sentence, resolved>>
svars == <<length, sentence, ssw_checked, cur_index, pc, result, tried, failed, returned,
           picked>>
vars == <<text, max_length, pos, model, this_word, new_sentence, resolved, phase,
          length, sentence, ssw_checked, cur_index, pc, result, tried, failed, returned,
          picked>>

\* --------------------------------------------------------- construction

initialize_model == [n_w |-> 0, words |-> EmptyArray,
                     n_ssw |-> 0, sentence_starting_words |-> EmptyArray]

\* 0 and the token when one is left, -1 at the end of the stream
scan_next_word(t, p) == IF p < Len(t) THEN [rc |-> 0, buf |-> t[p + 1]]
                        ELSE [rc |-> -1, buf |-> <<>>]

SentenceEnders == {".", "?", "!", ";"}

check_if_ends_sentence(buf) ==
    IF buf[Len(buf)] \in SentenceEnders
    THEN [ends |-> TRUE, buf |-> SubSeq(buf, 1, Len(buf) - 1)]
    ELSE [ends |-> FALSE, buf |-> buf]

\* mutant: the comparison ignores case
streq_ignoring_case(a, b) ==
    /\ Len(a) = Len(b)
    /\ \A i \in 1..Len(a) : tolower(a[i]) = tolower(b[i])

\* strcmp(a, b) == 0
streq(a, b) == a = b

search_words(m, buf) ==
    IF \E i \in 0..(m.n_w - 1) : streq(m.words[i].string, buf)
    THEN CHOOSE i \in 0..(m.n_w - 1) :
            /\ streq(m.words[i].string, buf)
            /\ \A j \in 0..(i - 1) : ~streq(m.words[j].string, buf)
    ELSE NULL

create_word(m, buf, ends_sentence) ==
    [model |-> [m EXCEPT !.words = Store(m.words, m.n_w,
                                     [string |-> buf,
                                      n_occurrences |-> 1,
                                      is_sentence_ender |-> ends_sentence,
                                      n_nw |-> 0,
                                      next_words |-> EmptyArray,
                                      tested |-> EmptyArray]),
                         !.n_w = m.n_w + 1],
     word |-> m.n_w]

\* mutant: the first character is left as scanned
decapitalize_skipped(buf) == buf

decapitalize(buf) == IF Len(buf) = 0 THEN buf
                     ELSE [buf EXCEPT ![1] = tolower(buf[1])]

\* mutant: a repeated word is not counted again
update_match_uncounted(m, match, ends_sentence) ==
    [m EXCEPT !.words[match].is_sentence_ender = IF ends_sentence THEN TRUE ELSE @]

\* mutant: a repeated word takes the flag of its latest occurrence
update_match_overwriting(m, match, ends_sentence) ==
    [m EXCEPT !.words[match].is_sentence_ender = ends_sentence,
              !.words[match].n_occurrences = @ + 1]

update_match(m, match, ends_sentence) ==
    [m EXCEPT !.words[match].is_sentence_ender = IF ends_sentence THEN TRUE ELSE @,
              !.words[match].n_occurrences = @ + 1]

add_next_word_to_model(m, next_word_buf, ends_sentence, new_s) ==
    LET buf == IF new_s THEN decapitalize(next_word_buf) ELSE next_word_buf
        match == search_words(m, buf)
    IN  IF match # NULL
        THEN [model |-> update_match(m, match, ends_sentence), word |-> match]
        ELSE create_word(m, buf, ends_sentence)

\* mutant: the two words are taken the other way round
link_words_reversed(m, tw, next_word) ==
    LET w == m.words[next_word]
    IN  [m EXCEPT !.words[next_word].next_words = Store(w.next_words, w.n_nw, tw),
                  !.words[next_word].n_nw = w.n_nw + 1]

link_words(m, tw, next_word) ==
    LET w == m.words[tw]
    IN  [m EXCEPT !.words[tw].next_words = Store(w.next_words, w.n_nw, next_word),
                  !.words[tw].n_nw = w.n_nw + 1]

add_starting_word(m, next_word) ==
    [m EXCEPT !.sentence_starting_words = Store(m.sentence_starting_words, m.n_ssw, next_word),
              !.n_ssw = m.n_ssw + 1]

mark_sentence_ender(m, next_word) ==
    [m EXCEPT !.words[next_word].is_sentence_ender = TRUE]

\* the capacities of words, sentence_starting_words and next_words
MAX_WORDS_IN_MODEL == 10000
MAX_STARTING_WORDS == 1000
MAX_FOLLOWING_WORDS == 100

\* One iteration of create_model's loop writes words[n_w] if the token is new
\* (created), then sentence_starting_words[n_ssw] or this_word's
\* next_words[n_nw].  No write is guarded; this is whether one of them is past
\* the end of its array.
out_of_bounds(m, tw, new_s, created) ==
    \/ created /\ m.n_w >= MAX_WORDS_IN_MODEL
    \/ new_s /\ m.n_ssw >= MAX_STARTING_WORDS
    \/ ~new_s /\ m.words[tw].n_nw >= MAX_FOLLOWING_WORDS

\* one iteration of create_model's loop that scans a token.  A write past the
\* end of an array is undefined: the program may go on with the memory behind
\* the array overwritten and the counter incremented, or do anything else
\* ("undefined", from which the model says nothing more).
ScanWord ==
    /\ phase = "building"
    /\ LET scanned == scan_next_word(text, pos)
       IN  /\ scanned.rc = 0
           /\ LET checked == check_if_ends_sentence(scanned.buf)
                  added == add_next_word_to_model(model, checked.buf, checked.ends, new_sentence)
                  next_word == added.word
                  linked == IF new_sentence THEN add_starting_word(added.model, next_word)
                            ELSE link_words(added.model, this_word, next_word)
              IN  /\ model' = IF checked.ends THEN mark_sentence_ender(linked, next_word)
                              ELSE linked
                  /\ new_sentence' = checked.ends
                  /\ this_word' = next_word
                  /\ resolved' = Append(resolved, next_word)
                  /\ phase' \in IF out_of_bounds(model, this_word, new_sentence,
                                                 added.model.n_w # model.n_w)
                                 THEN {"building", "undefined"}
                                 ELSE {"building"}
    /\ pos' = pos + 1
    /\ UNCHANGED <<text, max_length>>
    /\ UNCHANGED svars

\* mutant: the check for an empty model is missing
has_no_words_unchecked(m) == FALSE

has_no_words(m) == m.n_w = 0

\* the iteration whose scan fails: the loop ends, create_model exits or returns
EndOfText ==
    /\ phase = "building"
    /\ scan_next_word(text, pos).rc # 0
    /\ phase' = IF has_no_words(model) THEN "exit" ELSE "ready"
    /\ UNCHANGED <<cvars, model>>
    /\ UNCHANGED svars

\* ---------------------------------------------------------------- search

\* what generate_sentence hands back: nothing yet, NULL, or a string
NoResult == [kind |-> "none", string |-> <<>>]
NullResult == [kind |-> "NULL", string |-> <<>>]
StringResult(str) == [kind |-> "string", string |-> str]

\* the history of returned strings: kept or not, as the specification chooses
History(kept) == [kept |-> kept, strings |-> {}]
Keep(h, str) == IF h.kept THEN [h EXCEPT !.strings = @ \cup {str}] ELSE h

\* the values random_int(lower_bound, upper_bound) can return
random_int(lower_bound, upper_bound) == lower_bound..upper_bound

not_all_checked(array, n_elems) == \E i \in 0..(n_elems - 1) : ~array[i]

\* the string-so-far after the words at 0..i of sentence
RECURSIVE combine_upto(_, _, _, _)
combine_upto(m, sent, len, i) ==
    IF i < 0 THEN <<>>
    ELSE combine_upto(m, sent, len, i - 1) \o m.words[sent[i]].string
           \o (IF i = len - 1 THEN <<".">> ELSE <<" ">>)

combine_words(m, sent, len) ==
    LET sentence_string == combine_upto(m, sent, len, len - 1)
    IN  IF Len(sentence_string) = 0 THEN sentence_string
        ELSE [sentence_string EXCEPT ![1] = toupper(sentence_string[1])]

\* generate_sentence(model, n) is called; find_words clears ssw_checked
GenerateSentence ==
    /\ phase = "ready"
    /\ \E n \in 1..max_length : length' = n
    /\ phase' = "searching"
    /\ sentence' = EmptyArray
    /\ ssw_checked' = [i \in 0..(model.n_ssw - 1) |-> FALSE]
    /\ cur_index' = 0
    /\ pc' = "find_words"
    /\ result' = NoResult
    /\ tried' = <<>>
    /\ failed' = {}
    /\ picked' = EmptyArray
    /\ UNCHANGED <<cvars, model, returned>>

\* mutant: the drawn start is not marked
check_ssw_forgotten(checked, ssw_index) == checked

check_ssw(checked, ssw_index) == [checked EXCEPT ![ssw_index] = TRUE]

\* an iteration of find_words's loop whose random_int draws an index not
\* yet checked (an iteration that draws a checked index changes nothing)
FindWordsTry ==
    /\ phase = "searching" /\ pc = "find_words"
    /\ not_all_checked(ssw_checked, model.n_ssw)
    /\ \E ssw_index \in random_int(0, model.n_ssw - 1) :
          /\ ~ssw_checked[ssw_index]
          /\ ssw_checked' = check_ssw(ssw_checked, ssw_index)
          /\ sentence' = Store(sentence, 0, model.sentence_starting_words[ssw_index])
          /\ tried' = Append(tried, ssw_index)
    /\ cur_index' = 0
    /\ pc' = "enter"
    /\ UNCHANGED <<cvars, model, phase, length, result, failed, returned, picked>>

\* find_words's loop ends: it returns false and generate_sentence NULL
FindWordsFail ==
    /\ phase = "searching" /\ pc = "find_words"
    /\ ~not_all_checked(ssw_checked, model.n_ssw)
    /\ result' = NullResult
    /\ phase' = "ready"
    /\ pc' = "idle"
    /\ UNCHANGED <<cvars, model, length, sentence, ssw_checked, cur_index, tried, failed, returned, picked>>

is_base_case(len, cur) == len = cur + 1

\* mutant: the base case accepts any last word
base_case_any(m, sent, len) == TRUE

base_case(m, sent, len) == m.words[sent[len - 1]].is_sentence_ender

\* mutant: markers left by an earlier frame on the word are kept
clear_tested_once(m, tw) ==
    [m EXCEPT !.words[tw].tested =
        [i \in 0..(m.words[tw].n_nw - 1) |->
            IF i \in DOMAIN m.words[tw].tested THEN m.words[tw].tested[i] ELSE FALSE]]

clear_tested(m, tw) ==
    [m EXCEPT !.words[tw].tested = [i \in 0..(m.words[tw].n_nw - 1) |-> FALSE]]

\* find_words_recursive is entered: the base case, or the tested array of
\* this_word is cleared
Enter ==
    /\ phase = "searching" /\ pc = "enter"
    /\ IF is_base_case(length, cur_index)
       THEN /\ pc' = IF base_case(model, sentence, length) THEN "return_true" ELSE "return_false"
            /\ UNCHANGED <<model, picked>>
       ELSE /\ model' = clear_tested(model, sentence[cur_index])
            /\ picked' = Store(picked, cur_index, {})
            /\ pc' = "loop"
    /\ UNCHANGED <<cvars, phase, length, sentence, ssw_checked, cur_index, result, tried, failed, returned>>

\* mutant: the drawn index is not marked
set_tested_forgotten(m, tw, nw_index) == m

set_tested(m, tw, nw_index) == [m EXCEPT !.words[tw].tested[nw_index] = TRUE]

\* an iteration of find_words_recursive's loop whose random_int draws an
\* index not yet tested (one that draws a tested index changes nothing)
TryNextWord ==
    /\ phase = "searching" /\ pc = "loop"
    /\ LET this == sentence[cur_index]
       IN  /\ not_all_checked(model.words[this].tested, model.words[this].n_nw)
           /\ \E nw_index \in random_int(0, model.words[this].n_nw - 1) :
                 /\ ~model.words[this].tested[nw_index]
                 /\ model' = set_tested(model, this, nw_index)
                 /\ picked' = Store(picked, cur_index, picked[cur_index] \cup {nw_index})
                 /\ sentence' = Store(sentence, cur_index + 1, model.words[this].next_words[nw_index])
    /\ cur_index' = cur_index + 1
    /\ pc' = "enter"
    /\ UNCHANGED <<cvars, phase, length, ssw_checked, result, tried, failed, returned>>

\* find_words_recursive's loop ends: the frame returns false
Exhausted ==
    /\ phase = "searching" /\ pc = "loop"
    /\ LET this == sentence[cur_index]
       IN  ~not_all_checked(model.words[this].tested, model.words[this].n_nw)
    /\ pc' = "return_false"
    /\ UNCHANGED <<cvars, model, phase, length, sentence, ssw_checked, cur_index, result, tried, failed, returned, picked>>

\* false reaches the caller, which goes on with its loop
ReturnFalse ==
    /\ phase = "searching" /\ pc = "return_false"
    /\ IF cur_index = 0
       THEN /\ pc' = "find_words"
            /\ failed' = failed \cup {tried[Len(tried)]}
            /\ UNCHANGED cur_index
       ELSE /\ pc' = "loop"
            /\ cur_index' = cur_index - 1
            /\ UNCHANGED failed
    /\ UNCHANGED <<cvars, model, phase, length, sentence, ssw_checked, result, tried, returned, picked>>

\* true reaches the caller, which returns true at once; from find_words it
\* reaches generate_sentence, which returns the combined words
ReturnTrue ==
    /\ phase = "searching" /\ pc = "return_true"
    /\ IF cur_index = 0
       THEN /\ result' = StringResult(combine_words(model, sentence, length))
            /\ returned' = Keep(returned, combine_words(model, sentence, length))
            /\ phase' = "ready"
            /\ pc' = "idle"
            /\ UNCHANGED cur_index
       ELSE /\ cur_index' = cur_index - 1
            /\ UNCHANGED <<result, phase, pc, returned>>
    /\ UNCHANGED <<cvars, model, length, sentence, ssw_checked, tried, failed, picked>>

\* -------------------------------------------------------- specification

\* create_model is called on the stream t by a caller that will ask for
\* sentences of up to longest words
Start(t, longest, keep) ==
    /\ text = t
    /\ max_length = longest
    /\ returned = History(keep)
    /\ pos = 0
    /\ model = initialize_model
    /\ this_word = NULL
    /\ new_sentence = TRUE
    /\ resolved = <<>>
    /\ phase = "building"
    /\ length = 0
    /\ sentence = EmptyArray
    /\ ssw_checked = EmptyArray
    /\ cur_index = 0
    /\ pc = "idle"
    /\ result = NoResult
    /\ tried = <<>>
    /\ failed = {}
    /\ picked = EmptyArray

Init == \E t \in Streams(MaxTokens) : Start(t, MaxLength, FALSE)

\* the corpus "The cat sat. The dog ran."
CatCorpus == << <<"T","h","e">>, <<"c","a","t">>, <<"s","a","t",".">>,
                <<"T","h","e">>, <<"d","o","g">>, <<"r","a","n",".">> >>
InitCat == Start(CatCorpus, MaxLength, TRUE)

\* the corpus "a a a b.", in which a follows itself
CycleCorpus == << <<"a">>, <<"a">>, <<"a">>, <<"b", ".">> >>
InitFair == \/ \E t \in Streams(MaxFairTokens) : Start(t, MaxLength, FALSE)
            \/ Start(CycleCorpus, MaxCycleLength, FALSE)

Next ==
    \/ ScanWord
    \/ EndOfText
    \/ GenerateSentence
    \/ FindWordsTry
    \/ FindWordsFail
    \/ Enter
    \/ TryNextWord
    \/ Exhausted
    \/ ReturnFalse
    \/ ReturnTrue

Spec == Init /\ [][Next]_vars

\* The program is one thread that keeps running: a started create_model
\* scans on, and a started search takes its next step.  In the search loops
\* the step is a draw of an index not yet marked, so the fairness on it is
\* that random_int does not avoid the unmarked indices for ever.
Build == ScanWord \/ EndOfText
Search == FindWordsTry \/ FindWordsFail \/ Enter \/ TryNextWord \/ Exhausted
            \/ ReturnFalse \/ ReturnTrue
SpecCat == InitCat /\ [][Next]_vars

\* Construction alone, on corpora longer than a capacity: "a" repeated, each
\* occurrence after the first a successor of a, and "a." repeated, each
\* occurrence a sentence start.
LinkCorpus == [i \in 1..(MAX_FOLLOWING_WORDS + 2) |-> <<"a">>]
StarterCorpus == [i \in 1..(MAX_STARTING_WORDS + 1) |-> <<"a", ".">>]
InitCapacity == \E t \in {LinkCorpus, StarterCorpus} : Start(t, MaxLength, FALSE)
SpecCapacity == InitCapacity /\ [][Build]_vars
FairSpec == InitFair /\ [][Next]_vars /\ WF_vars(Build) /\ WF_vars(Search)

\* ---------------------------------------------------------------- claims

\* a call of generate_sentence has returned
Returned == phase = "ready" /\ result.kind # "none"
Succeeded == Returned /\ result.kind = "string"
Impossible == Returned /\ result.kind = "NULL"

\* b occurs in a's next_words
Follows(m, a, b) == \E j \in 0..(m.words[a].n_nw - 1) : m.words[a].next_words[j] = b
Starters(m) == { m.sentence_starting_words[i] : i \in 0..(m.n_ssw - 1) }

\* sent[0..len-1] starts at a sentence starter, follows successor links and
\* ends on a sentence ender
ValidChain(m, sent, len) ==
    /\ DOMAIN sent = 0..(len - 1)
    /\ sent[0] \in Starters(m)
    /\ \A i \in 0..(len - 2) : Follows(m, sent[i], sent[i + 1])
    /\ m.words[sent[len - 1]].is_sentence_ender

\* the words that can stand at position i of a chain from a sentence starter
RECURSIVE WordsAt(_, _)
WordsAt(m, i) ==
    IF i = 0 THEN Starters(m)
    ELSE { b \in 0..(m.n_w - 1) : \E a \in WordsAt(m, i - 1) : Follows(m, a, b) }

ChainExists(m, len) == \E w \in WordsAt(m, len - 1) : m.words[w].is_sentence_ender

\* C1: whenever generate_sentence reports success, the words it found are
\* exactly `length` entries, the first a sentence starter, each next one a
\* successor of the one before, the last a sentence ender.
C1_SuccessIsValidChain == Succeeded => ValidChain(model, sentence, length)

C1_Witness == Succeeded /\ length = 3 /\ model.n_w >= 3

\* C2: the outcome does not depend on the random picks: the call succeeds
\* when a valid chain of the requested length exists, and only then.
C2_OutcomeIsChainExists == Returned => (result.kind = "string" <=> ChainExists(model, length))

\* some word stands at two positions of the sentence
Revisited == \E i \in DOMAIN sentence : \E j \in DOMAIN sentence :
                i < j /\ j < length /\ sentence[i] = sentence[j]

\* C3: generate_sentence terminates, cycles in the successor graph or not
\* (so on "a a a b." with length 5): the recursion is never deeper than
\* `length` frames, and a started search ends, with a valid chain or with
\* NULL.
C3_Terminates ==
    /\ [](phase = "searching" => cur_index + 1 <= length)
    /\ [](Returned => (Impossible \/ ValidChain(model, sentence, length)))
    /\ (phase = "searching" ~> Returned)

\* the search on "a a a b." with length 5 has ended, `a` at several positions
C3_Witness == text = CycleCorpus /\ length = 5 /\ Returned /\ Revisited

RECURSIVE SumOccurrences(_, _)
SumOccurrences(m, n) ==
    IF n = 0 THEN 0 ELSE SumOccurrences(m, n - 1) + m.words[n - 1].n_occurrences

\* C4: after every token of a non-empty stream, and so in the model that
\* create_model returns, sentence_starting_words is not empty and the
\* n_occurrences of all entries add up to the number of tokens scanned.
C4_StartersAndCount ==
    /\ pos >= 1 => model.n_ssw >= 1
    /\ SumOccurrences(model, model.n_w) = pos
    /\ phase \in {"ready", "searching"} => (pos = Len(text) /\ model.n_ssw >= 1)

C4_Witness ==
    /\ phase = "ready" /\ pos = 4 /\ model.n_w = 2 /\ model.n_ssw = 2
    /\ \E w \in 0..(model.n_w - 1) : model.words[w].n_occurrences = 3

\* the token as scanned ends with sentence-ending punctuation
EndsClause(tok) == tok[Len(tok)] \in {".", "?", "!", ";"}
IsEnder(m, w) == m.words[w].is_sentence_ender

\* C5: an entry is a sentence ender exactly when some token resolved to it
\* ended with one of . ? ! ; and during construction the flag never goes
\* back from true to false.
C5_EnderIffObserved ==
    /\ [](\A w \in 0..(model.n_w - 1) :
            IsEnder(model, w) <=> \E k \in 1..Len(resolved) :
                                     resolved[k] = w /\ EndsClause(text[k]))
    /\ [][\A w \in 0..(model.n_w - 1) : (IsEnder(model, w) => IsEnder(model', w))]_vars

\* an entry that ended a sentence and was matched again by a token that did not
C5_Witness ==
    /\ phase = "ready"
    /\ \E j \in 1..Len(resolved) : \E k \in 1..Len(resolved) :
          /\ j < k /\ resolved[j] = resolved[k]
          /\ EndsClause(text[j]) /\ ~EndsClause(text[k])
          /\ IsEnder(model, resolved[k])

TheCatSat == <<"T","h","e"," ","c","a","t"," ","s","a","t",".">>
TheDogRan == <<"T","h","e"," ","d","o","g"," ","r","a","n",".">>
Vocabulary(m) == { [string |-> m.words[w].string,
                    n_occurrences |-> m.words[w].n_occurrences,
                    is_sentence_ender |-> m.words[w].is_sentence_ender] : w \in 0..(m.n_w - 1) }
CatVocabulary ==
    { [string |-> <<"t","h","e">>, n_occurrences |-> 2, is_sentence_ender |-> FALSE],
      [string |-> <<"c","a","t">>, n_occurrences |-> 1, is_sentence_ender |-> FALSE],
      [string |-> <<"s","a","t">>, n_occurrences |-> 1, is_sentence_ender |-> TRUE],
      [string |-> <<"d","o","g">>, n_occurrences |-> 1, is_sentence_ender |-> FALSE],
      [string |-> <<"r","a","n">>, n_occurrences |-> 1, is_sentence_ender |-> TRUE] }

\* C6: for "The cat sat. The dog ran." the vocabulary is the, cat, sat, dog,
\* ran with `the` counted twice and sat and ran sentence enders, the
\* sentence starters are the, the; length 3 never returns NULL and returns
\* "The cat sat." or "The dog ran."; length 2 always returns NULL.
C6_CatCorpus ==
    /\ phase \in {"ready", "searching"} =>
          /\ model.n_w = 5
          /\ Vocabulary(model) = CatVocabulary
          /\ model.n_ssw = 2
          /\ \A i \in 0..1 :
                model.words[model.sentence_starting_words[i]].string = <<"t","h","e">>
    /\ (Returned /\ length = 3) =>
          (result.kind = "string" /\ result.string \in {TheCatSat, TheDogRan})
    /\ (Returned /\ length = 2) => result.kind = "NULL"

\* both sentences have been returned
C6_Witness == returned.strings = {TheCatSat, TheDogRan} /\ Impossible /\ length = 2

\* C7: create_model ends in exit(1) exactly on a stream of no tokens; on any
\* other stream it returns, and only with every token scanned into the model.
C7_EmptyCorpus ==
    /\ phase = "exit" => (Len(text) = 0 /\ model = initialize_model)
    /\ (Len(text) = 0 /\ phase # "building") => phase = "exit"
    /\ phase \in {"ready", "searching"} =>
          (Len(text) >= 1 /\ pos = Len(text) /\ Len(resolved) = Len(text) /\ model.n_w >= 1)

C7_Witness == phase = "exit" /\ Len(text) = 0

\* number of maximal runs of non-blank characters in str[1..n]
RECURSIVE CountTokens(_, _)
CountTokens(str, n) ==
    IF n = 0 THEN 0
    ELSE CountTokens(str, n - 1)
           + (IF str[n] # " " /\ (n = Len(str) \/ str[n + 1] = " ") THEN 1 ELSE 0)

\* C8: the string combine_words yields starts with an uppercase letter, ends
\* with exactly one period and splits on blanks into `length` tokens.
C8_FormatShape ==
    Succeeded =>
       LET str == result.string
       IN  /\ Len(str) >= 2
           /\ isupper(str[1])
           /\ str[Len(str)] = "." /\ str[Len(str) - 1] # "."
           /\ CountTokens(str, Len(str)) = length

\* C9: a call of generate_sentence writes no field of the Model.
C9_ModelUnchanged == [][(phase \in {"ready", "searching"}) => (model' = model)]_vars

\* C10: find_words starts the inner search from each index of
\* sentence_starting_words at most once; it returns false only when every
\* index is marked and the inner search from it has returned false; it
\* returns true right after the first inner search that returns true.
AllStarts == 0..(model.n_ssw - 1)
C10_OuterSearch ==
    phase \in {"ready", "searching"} =>
       /\ \A j \in 1..Len(tried) : \A k \in 1..Len(tried) : tried[j] = tried[k] => j = k
       /\ Impossible => (failed = AllStarts /\ \A i \in AllStarts : ssw_checked[i])
       /\ Succeeded => /\ failed = { tried[k] : k \in 1..(Len(tried) - 1) }
                       /\ tried[Len(tried)] \notin failed
                       /\ sentence[0] = model.sentence_starting_words[tried[Len(tried)]]

\* every start was tried and failed, one after the other
C10_Witness == Impossible /\ Len(tried) = 2 /\ length = 2

\* the frame at cur_index is on a non-final position
InnerFrame == phase = "searching" /\ ~is_base_case(length, cur_index)
FrameWord == model.words[sentence[cur_index]]
Marked(w) == { i \in 0..(w.n_nw - 1) : w.tested[i] }

\* C11: at a non-final position find_words_recursive returns false only after
\* this call has selected every index of the word's next_words (each
\* recursive call having returned false before the next draw); none is skipped.
C11_FailsAfterAllSuccessors ==
    (InnerFrame /\ pc = "return_false") => picked[cur_index] = 0..(FrameWord.n_nw - 1)

\* C12: the markers of a position are its own: whenever the frame of a
\* position is in its loop, also after a recursive call that had the same
\* word at a deeper position has returned, the indices it regards as tested
\* are the ones this frame has selected.
C12_MarkersPerPosition ==
    (InnerFrame /\ pc = "loop") => Marked(FrameWord) = picked[cur_index]

RECURSIVE SumNextWords(_, _)
SumNextWords(m, n) ==
    IF n = 0 THEN 0 ELSE SumNextWords(m, n - 1) + m.words[n - 1].n_nw

\* the next_words of entry w, none for an entry that does not exist yet
NextWordsOf(m, w) == IF w < m.n_w THEN m.words[w].next_words ELSE EmptyArray
NnwOf(m, w) == IF w < m.n_w THEN m.words[w].n_nw ELSE 0

\* the token about to be scanned is the first one or follows a token that
\* ended a sentence
AtSentenceStart == pos = 0 \/ EndsClause(text[pos])

\* C13: each token adds one reference: at a sentence start its entry is
\* appended to sentence_starting_words and no next_words changes; otherwise
\* it is appended to the end of the previous token's entry's next_words and
\* sentence_starting_words stays.  So n_ssw plus all n_nw is the number of
\* tokens scanned, and no link leads across a sentence boundary.
C13_OneReferencePerToken ==
    /\ [](model.n_ssw + SumNextWords(model, model.n_w) = pos)
    /\ [][pos' = pos + 1 =>
            LET entry == resolved'[pos + 1]
            IN  IF AtSentenceStart
                THEN /\ model'.n_ssw = model.n_ssw + 1
                     /\ model'.sentence_starting_words
                           = Store(model.sentence_starting_words, model.n_ssw, entry)
                     /\ \A w \in 0..(model'.n_w - 1) :
                           /\ model'.words[w].next_words = NextWordsOf(model, w)
                           /\ model'.words[w].n_nw = NnwOf(model, w)
                ELSE /\ model'.n_ssw = model.n_ssw
                     /\ model'.sentence_starting_words = model.sentence_starting_words
                     /\ \A w \in 0..(model'.n_w - 1) :
                           IF w = resolved[pos]
                           THEN /\ model'.words[w].next_words
                                      = Store(model.words[w].next_words, model.words[w].n_nw, entry)
                                /\ model'.words[w].n_nw = model.words[w].n_nw + 1
                           ELSE /\ model'.words[w].next_words = NextWordsOf(model, w)
                                /\ model'.words[w].n_nw = NnwOf(model, w)]_vars

\* two sentences, the second with a link, have been scanned
C13_Witness ==
    /\ phase = "ready" /\ pos = 4 /\ model.n_ssw = 2
    /\ \E w \in 0..(model.n_w - 1) : model.words[w].n_nw = 2

\* create_model is running or has just ended (no search changes a string)
Constructing == phase \in {"building", "exit"} \/ (phase = "ready" /\ result.kind = "none")

\* token k is the first one or follows a token that ended a sentence
SentenceInitial(k) == k = 1 \/ EndsClause(text[k - 1])

\* the text token k is registered under: its sentence-ending character
\* removed, its first character in lowercase when it is sentence-initial
Registered(k) ==
    LET tok == text[k]
        stripped == IF EndsClause(tok) THEN SubSeq(tok, 1, Len(tok) - 1) ELSE tok
    IN  IF SentenceInitial(k) /\ Len(stripped) > 0
        THEN <<tolower(stripped[1])>> \o SubSeq(stripped, 2, Len(stripped))
        ELSE stripped

C15_LengthOne ==
    /\ (phase = "searching" /\ length = 1) =>
          (pc # "loop" /\ cur_index = 0 /\ picked = EmptyArray)
    /\ (Returned /\ length = 1) =>
          /\ picked = EmptyArray
          /\ result.kind = "string" <=> \E w \in Starters(model) : IsEnder(model, w)
          /\ result.kind = "string" =>
                /\ DOMAIN sentence = {0}
                /\ sentence[0] \in Starters(model)
                /\ IsEnder(model, sentence[0])

\* a starter that ends no sentence was tried and failed before one that does
C15_Witness == Succeeded /\ length = 1 /\ failed # {}

\* C16: construction stays within the capacities for every corpus: n_w, n_ssw
\* and each entry's n_nw never exceed the size of their arrays, and no slot
\* outside an array is written.
C16_WithinCapacity ==
    /\ phase # "undefined"
    /\ model.n_w <= MAX_WORDS_IN_MODEL
    /\ DOMAIN model.words \subseteq 0..(MAX_WORDS_IN_MODEL - 1)
    /\ model.n_ssw <= MAX_STARTING_WORDS
    /\ DOMAIN model.sentence_starting_words \subseteq 0..(MAX_STARTING_WORDS - 1)
    /\ \A w \in 0..(model.n_w - 1) :
          /\ model.words[w].n_nw <= MAX_FOLLOWING_WORDS
          /\ DOMAIN model.words[w].next_words \subseteq 0..(MAX_FOLLOWING_WORDS - 1)

\* the words reached from the words of S by 1..k successor links
RECURSIVE Descendants(_, _, _)
Descendants(m, S, k) ==
    IF k = 0 THEN {}
    ELSE LET step == { b \in 0..(m.n_w - 1) : \E a \in S : Follows(m, a, b) }
         IN  step \cup Descendants(m, step, k - 1)

\* no word is reachable from itself through successor links
Acyclic(m) == \A w \in 0..(m.n_w - 1) : w \notin Descendants(m, {w}, m.n_w)

\* C17: when the successor graph is acyclic, every execution of
\* generate_sentence(model, N), N >= 1, returns a string if a valid chain of
\* length N exists and NULL otherwise, although the tested markers are kept
\* in the word and reused by every frame that comes to it.
C17_AcyclicOutcome ==
    (Returned /\ Acyclic(model)) =>
        (result.kind = "string" <=> ChainExists(model, length))

\* in an acyclic graph whose chains have other lengths, a word with two
\* successors is entered from both sentence_starting_words entries, its markers
\* set by the first search and used again by the second, and the call fails
C17_Witness ==
    /\ Impossible /\ Acyclic(model) /\ length = 3 /\ ChainExists(model, 2)
    /\ Len(tried) = 2
    /\ model.sentence_starting_words[0] = model.sentence_starting_words[1]
    /\ model.words[model.sentence_starting_words[0]].n_nw = 2
====
